---- MODULE Spec2Model ----
(***************************************************************************)
(* Models of the three artifacts of the documentation site:                *)
(*   - the ReaderFeedback React component (src/components/ReaderFeedback), *)
(*   - the apiSidebar navigation tree,                                     *)
(*   - the crowdfund contract whose Rust source the tutorial page embeds.  *)
(* Each artifact has its own specification over its own variables.         *)
(***************************************************************************)
EXTENDS Integers, Sequences, FiniteSets, TLC

(* ----------------------------- bounds ---------------------------------- *)
\* number of times the widget may be remounted in one behaviour
MaxMounts == 2
\* largest ledger timestamp reached by advancing the ledger
MaxTime == 2
\* largest target_amount / deadline passed to initialize
MaxTarget == 2
\* tokens minted to every address before the campaign, and the largest
\* amount passed to deposit
MintAmount == 2

VARIABLES
    \* ReaderFeedback component and its browser environment
    isBrowser,      \* value returned by useIsBrowser()
    feedbackGiven,  \* the useState flag
    pageId,         \* the pageId prop of the mounted instance
    gaPresent,      \* window.ga is defined
    globalLabel,    \* what the free identifier `label` resolves to
    gaQueue,        \* calls received by window.ga, oldest first
    mounts,         \* number of remounts so far
    sentAtMount,    \* Len(gaQueue) when the current instance mounted
    lastClick,      \* outcome of the last giveFeedback call of this instance
    \* apiSidebar as read by the site generator
    curPos,         \* <<category, item>> position of the active entry
    prevPos,        \* position of the entry that was active before
    \* crowdfund contract, its token and the ledger
    cf,             \* contract storage (DataKey::Recipient .. Target)
    deposited,      \* DataKey::User(address): amount deposited
    tokenBal,       \* token balance of every address and of the contract
    now,            \* ledger timestamp
    lastCall,       \* the last contract invocation and how it ended
    lastEvents      \* events emitted by the last contract invocation

widgetVars == <<isBrowser, feedbackGiven, pageId, gaPresent, globalLabel,
                gaQueue, mounts, sentAtMount, lastClick>>

sidebarVars == <<curPos, prevPos>>

cfVars == <<cf, deposited, tokenBal, now, lastCall, lastEvents>>

vars == <<widgetVars, sidebarVars, cfVars>>

(* ------------------------- ReaderFeedback ------------------------------ *)

\* page identifiers a page may pass as the pageId prop
PageIds == {"goals", "methods/getHealth"}

\* `label` is not declared in the module: it resolves through the global
\* object.  It is either unbound, bound to undefined, or bound to a value.
Unbound == "<unbound>"
Undefined == "<undefined>"
GlobalLabelValues == {Unbound, Undefined, "ext-label"}

\* the two controls and the value each passes to giveFeedback
Controls == {"feedback_thumbsup", "feedback_thumbsdown"}

ControlValue(control) ==
    IF control = "feedback_thumbsup" THEN 1 ELSE 0

NoClick ==
    [control |-> "none", hadGa |-> FALSE, outcome |-> "none", sent |-> 0]

\* what the component returns from render
Render(browser, given) ==
    IF ~browser
    THEN [text |-> "", controls |-> {}]
    ELSE IF given
         THEN [text |-> "Thanks for your feedback!", controls |-> {}]
         ELSE [text |-> "Did you find this page helpful?",
               controls |-> Controls]

Rendered == Render(isBrowser, feedbackGiven)

\* the object literal passed to window.ga
Event(lbl, value) ==
    [hitType |-> "event", eventCategory |-> "button",
     eventAction |-> "feedback", eventLabel |-> lbl, eventValue |-> value]

\* giveFeedback(value): result of one call, as
\*   [queue: the ga queue afterwards, given: the flag afterwards,
\*    outcome: "ok" or the error thrown]
giveFeedback_NoGaCheck(value, ga, lbl, queue, given) ==
    IF ~ga
    THEN [queue |-> queue, given |-> given, outcome |-> "TypeError"]
    ELSE IF lbl = Unbound
         THEN [queue |-> queue, given |-> given, outcome |-> "ReferenceError"]
         ELSE [queue |-> Append(queue, <<"send", Event(lbl, value)>>),
               given |-> TRUE, outcome |-> "ok"]

giveFeedback_NoSetState(value, ga, lbl, queue, given) ==
    IF ga
    THEN IF lbl = Unbound
         THEN [queue |-> queue, given |-> given, outcome |-> "ReferenceError"]
         ELSE [queue |-> Append(queue, <<"send", Event(lbl, value)>>),
               given |-> given, outcome |-> "ok"]
    ELSE [queue |-> queue, given |-> given, outcome |-> "ok"]

giveFeedback(value, ga, lbl, queue, given) ==
    IF ga
    THEN IF lbl = Unbound
         \* evaluating the argument object reads `label`: ReferenceError,
         \* thrown before window.ga is called and before setFeedbackGiven
         THEN [queue |-> queue, given |-> given, outcome |-> "ReferenceError"]
         ELSE [queue |-> Append(queue, <<"send", Event(lbl, value)>>),
               given |-> TRUE, outcome |-> "ok"]
    ELSE [queue |-> queue, given |-> TRUE, outcome |-> "ok"]

\* useIsBrowser() turns true once the page has hydrated
Hydrate ==
    /\ ~isBrowser
    /\ isBrowser' = TRUE
    /\ UNCHANGED <<feedbackGiven, pageId, gaPresent, globalLabel, gaQueue,
                   mounts, sentAtMount, lastClick>>
    /\ UNCHANGED <<sidebarVars, cfVars>>

\* the analytics script finishes loading and defines window.ga
LoadAnalytics ==
    /\ ~gaPresent
    /\ gaPresent' = TRUE
    /\ UNCHANGED <<isBrowser, feedbackGiven, pageId, globalLabel, gaQueue,
                   mounts, sentAtMount, lastClick>>
    /\ UNCHANGED <<sidebarVars, cfVars>>

\* onClick of a rendered control
Click(control) ==
    /\ control \in Rendered.controls
    /\ LET r == giveFeedback(ControlValue(control), gaPresent, globalLabel,
                             gaQueue, feedbackGiven)
       IN /\ gaQueue' = r.queue
          /\ feedbackGiven' = r.given
          /\ lastClick' = [control |-> control, hadGa |-> gaPresent,
                           outcome |-> r.outcome,
                           sent |-> Len(r.queue) - Len(gaQueue)]
    /\ UNCHANGED <<isBrowser, pageId, gaPresent, globalLabel, mounts,
                   sentAtMount>>
    /\ UNCHANGED <<sidebarVars, cfVars>>

\* the reader navigates: the component unmounts and a new instance mounts
Remount ==
    /\ mounts < MaxMounts
    /\ mounts' = mounts + 1
    /\ pageId' \in PageIds
    /\ feedbackGiven' = FALSE
    /\ sentAtMount' = Len(gaQueue)
    /\ lastClick' = NoClick
    /\ UNCHANGED <<isBrowser, gaPresent, globalLabel, gaQueue>>
    /\ UNCHANGED <<sidebarVars, cfVars>>

WidgetNext ==
    \/ Hydrate
    \/ LoadAnalytics
    \/ \E control \in Controls : Click(control)
    \/ Remount

(* ----------------------------- apiSidebar ------------------------------ *)

apiSidebar_DuplicateItem ==
    << [type |-> "category", label |-> "Introduction",
        collapsible |-> TRUE, collapsed |-> FALSE,
        link |-> [type |-> "generated-index", title |-> "Introduction",
                  slug |-> "/"],
        items |-> <<"goals", "anti-goals", "json-rpc", "pagination",
                    "outstanding-questions">>],
       [type |-> "category", label |-> "Request/Response Methods",
        collapsible |-> TRUE, collapsed |-> FALSE,
        link |-> [type |-> "generated-index",
                  title |-> "Request/Response Methods", slug |-> "methods"],
        items |-> <<"methods/getAccount", "methods/getHealth",
                    "methods/getLatestLedger", "methods/getLedgerEntry",
                    "methods/getContractData", "methods/getEvents",
                    "methods/getNetwork", "methods/getTransactionStatus",
                    "methods/requestAirdrop", "methods/sendTransaction",
                    "methods/getHealth">>] >>

apiSidebar ==
    << [type |-> "category", label |-> "Introduction",
        collapsible |-> TRUE, collapsed |-> FALSE,
        link |-> [type |-> "generated-index", title |-> "Introduction",
                  slug |-> "/"],
        items |-> <<"goals", "anti-goals", "json-rpc", "pagination",
                    "outstanding-questions">>],
       [type |-> "category", label |-> "Request/Response Methods",
        collapsible |-> TRUE, collapsed |-> FALSE,
        link |-> [type |-> "generated-index",
                  title |-> "Request/Response Methods", slug |-> "methods"],
        items |-> <<"methods/getAccount", "methods/getHealth",
                    "methods/getLatestLedger", "methods/getLedgerEntry",
                    "methods/getContractData", "methods/getEvents",
                    "methods/getNetwork", "methods/getTransactionStatus",
                    "methods/requestAirdrop", "methods/sendTransaction",
                    "methods/simulateTransaction">>] >>

\* every <<category, item>> position of the tree
Positions ==
    UNION {{<<c, i>> : i \in DOMAIN apiSidebar[c].items} :
           c \in DOMAIN apiSidebar}

\* the page identifier stored at a position
ItemAt(pos) == apiSidebar[pos[1]].items[pos[2]]

\* the category a position belongs to
CategoryOf(pos) == apiSidebar[pos[1]]

\* the reader opens another entry of the sidebar
Navigate(pos) ==
    /\ pos \in Positions
    /\ prevPos' = curPos
    /\ curPos' = pos
    /\ UNCHANGED <<widgetVars, cfVars>>

SidebarNext == \E pos \in Positions : Navigate(pos)

(* ------------------------- crowdfund contract -------------------------- *)

Addresses == {"a1", "a2", "a3"}

\* e.current_contract_address()
Contract == "crowdfund"

NoAddress == "none"

\* contract storage before initialize
EmptyStorage ==
    [initialized |-> FALSE, recipient |-> NoAddress, claimed |-> FALSE,
     started |-> 0, deadline |-> 0, target |-> 0]

\* target_reached(e, token): the contract's balance against the target
target_reached(c, bal) == bal >= c.target

\* get_state(e)
get_state_InclusiveDeadline(c, ts, bal) ==
    IF ts <= c.deadline
    THEN "Running"
    ELSE IF c.claimed \/ target_reached(c, bal) THEN "Success" ELSE "Expired"

get_state_IgnoresClaimed(c, ts, bal) ==
    IF ts < c.deadline
    THEN "Running"
    ELSE IF target_reached(c, bal) THEN "Success" ELSE "Expired"

get_state(c, ts, bal) ==
    IF ts < c.deadline
    THEN "Running"
    ELSE IF c.claimed \/ target_reached(c, bal) THEN "Success" ELSE "Expired"

\* the campaign state now; "None" while the contract is not initialized
CurrentState ==
    IF cf.initialized THEN get_state(cf, now, tokenBal[Contract]) ELSE "None"

\* outcome of an invocation that panics: the host rolls everything back
Panic(msg, c, dep, tok) ==
    [result |-> msg, cf |-> c, deposited |-> dep, tokenBal |-> tok,
     events |-> <<>>]

\* token transfer of `amount` from `from` to `to`
Moved(tok, from, to, amount) ==
    IF from = to
    THEN tok
    ELSE [tok EXCEPT ![from] = @ - amount, ![to] = @ + amount]

\* initialize(e, recipient, deadline, target_amount, token)
initialize(c, dep, tok, ts, recipient, deadline, target) ==
    IF c.initialized
    THEN Panic("already initialized", c, dep, tok)
    ELSE [result |-> "ok",
          cf |-> [initialized |-> TRUE, recipient |-> recipient,
                  claimed |-> FALSE, started |-> ts, deadline |-> deadline,
                  target |-> target],
          deposited |-> dep, tokenBal |-> tok, events |-> <<>>]

\* deposit(e, user, amount)
deposit(c, dep, tok, ts, user, amount, authorized) ==
    IF ~authorized
    THEN Panic("not authorized", c, dep, tok)
    ELSE IF ~(amount > 0)
    THEN Panic("amount must be positive", c, dep, tok)
    ELSE IF ~c.initialized
    THEN Panic("not initialized", c, dep, tok)
    ELSE IF get_state(c, ts, tok[Contract]) # "Running"
    THEN Panic("sale is not running", c, dep, tok)
    ELSE IF user = c.recipient
    THEN Panic("recipient may not deposit", c, dep, tok)
    ELSE IF tok[user] < amount
    THEN Panic("balance is not sufficient to spend", c, dep, tok)
    ELSE LET current_target_met == target_reached(c, tok[Contract])
             tok2 == Moved(tok, user, Contract, amount)
             contract_balance == tok2[Contract]
         IN [result |-> "ok", cf |-> c,
             deposited |-> [dep EXCEPT ![user] = @ + amount],
             tokenBal |-> tok2,
             events |->
                <<<<"pledged_amount_changed", contract_balance>>>> \o
                (IF ~current_target_met /\ target_reached(c, contract_balance)
                 THEN <<<<"target_reached", contract_balance, c.target>>>>
                 ELSE <<>>)]

\* withdraw(e, to)
withdraw_RecipientAllowedWhenExpired(c, dep, tok, ts, to) ==
    IF ~c.initialized
    THEN Panic("not initialized", c, dep, tok)
    ELSE LET state == get_state(c, ts, tok[Contract])
         IN CASE state = "Running" ->
                    Panic("sale is still running", c, dep, tok)
              [] state = "Success" ->
                    IF to # c.recipient
                    THEN Panic("sale was successful, only the recipient may withdraw",
                               c, dep, tok)
                    ELSE IF c.claimed
                    THEN Panic("sale was successful, recipient has withdrawn funds already",
                               c, dep, tok)
                    ELSE [result |-> "ok", cf |-> [c EXCEPT !.claimed = TRUE],
                          deposited |-> dep,
                          tokenBal |-> Moved(tok, Contract, c.recipient,
                                             tok[Contract]),
                          events |-> <<>>]
              [] state = "Expired" ->
                    IF tok[Contract] < dep[to]
                    THEN Panic("balance is not sufficient to spend", c, dep, tok)
                    ELSE LET tok2 == Moved(tok, Contract, to, dep[to])
                         IN [result |-> "ok", cf |-> c,
                             deposited |-> [dep EXCEPT ![to] = 0],
                             tokenBal |-> tok2,
                             events |-> <<<<"pledged_amount_changed",
                                            tok2[Contract]>>>>]

withdraw(c, dep, tok, ts, to) ==
    IF ~c.initialized
    THEN Panic("not initialized", c, dep, tok)
    ELSE LET state == get_state(c, ts, tok[Contract])
         IN CASE state = "Running" ->
                    Panic("sale is still running", c, dep, tok)
              [] state = "Success" ->
                    IF to # c.recipient
                    THEN Panic("sale was successful, only the recipient may withdraw",
                               c, dep, tok)
                    ELSE IF c.claimed
                    THEN Panic("sale was successful, recipient has withdrawn funds already",
                               c, dep, tok)
                    ELSE [result |-> "ok", cf |-> [c EXCEPT !.claimed = TRUE],
                          deposited |-> dep,
                          tokenBal |-> Moved(tok, Contract, c.recipient,
                                             tok[Contract]),
                          events |-> <<>>]
              [] state = "Expired" ->
                    IF to = c.recipient
                    THEN Panic("sale expired, the recipient may not withdraw",
                               c, dep, tok)
                    ELSE IF tok[Contract] < dep[to]
                    THEN Panic("balance is not sufficient to spend", c, dep, tok)
                    ELSE LET tok2 == Moved(tok, Contract, to, dep[to])
                         IN [result |-> "ok", cf |-> c,
                             deposited |-> [dep EXCEPT ![to] = 0],
                             tokenBal |-> tok2,
                             events |-> <<<<"pledged_amount_changed",
                                            tok2[Contract]>>>>]

\* what is remembered of an invocation: the call, the campaign as it was
\* when the call was made, and how the call ended
Call(op, to, amount, r) ==
    [op |-> op, to |-> to, amount |-> amount,
     preState |-> CurrentState, preClaimed |-> cf.claimed,
     wasDonor |-> IF to \in Addresses THEN deposited[to] > 0 ELSE FALSE,
     preBal |-> tokenBal, result |-> r.result]

\* token balances before the campaign: every address was minted MintAmount
InitialTokens ==
    [a \in Addresses \cup {Contract} |->
        IF a = Contract THEN 0 ELSE MintAmount]

\* nothing has been invoked yet
NoCall ==
    [op |-> "none", to |-> NoAddress, amount |-> 0, preState |-> "None",
     preClaimed |-> FALSE, wasDonor |-> FALSE, preBal |-> InitialTokens,
     result |-> "none"]

\* the contract and the ledger take the outcome of an invocation
Commit(r) ==
    /\ cf' = r.cf
    /\ deposited' = r.deposited
    /\ tokenBal' = r.tokenBal
    /\ lastEvents' = r.events

Initialize(recipient, deadline, target) ==
    LET r == initialize(cf, deposited, tokenBal, now, recipient, deadline,
                        target)
    IN /\ Commit(r)
       /\ lastCall' = Call("initialize", recipient, 0, r)
       /\ UNCHANGED <<now, widgetVars, sidebarVars>>

Deposit(user, amount, authorized) ==
    LET r == deposit(cf, deposited, tokenBal, now, user, amount, authorized)
    IN /\ Commit(r)
       /\ lastCall' = Call("deposit", user, amount, r)
       /\ UNCHANGED <<now, widgetVars, sidebarVars>>

Withdraw(to) ==
    LET r == withdraw(cf, deposited, tokenBal, now, to)
    IN /\ Commit(r)
       /\ lastCall' = Call("withdraw", to, 0, r)
       /\ UNCHANGED <<now, widgetVars, sidebarVars>>

\* advance_ledger: ledger time only moves forward
AdvanceLedger ==
    /\ now < MaxTime
    /\ now' = now + 1
    /\ UNCHANGED <<cf, deposited, tokenBal, lastCall, lastEvents>>
    /\ UNCHANGED <<widgetVars, sidebarVars>>

CrowdfundNext ==
    \/ \E recipient \in Addresses, deadline \in 0..MaxTime,
          target \in 0..MaxTarget :
          Initialize(recipient, deadline, target)
    \/ \E user \in Addresses, amount \in 0..MintAmount,
          authorized \in BOOLEAN :
          Deposit(user, amount, authorized)
    \/ \E to \in Addresses : Withdraw(to)
    \/ AdvanceLedger

(* --------------------------- specifications ---------------------------- *)

\* the widget on a freshly loaded page; the other artifacts are at rest
WidgetInit ==
    /\ isBrowser \in BOOLEAN
    /\ feedbackGiven = FALSE
    /\ pageId \in PageIds
    /\ gaPresent \in BOOLEAN
    /\ globalLabel \in GlobalLabelValues
    /\ gaQueue = <<>>
    /\ mounts = 0
    /\ sentAtMount = 0
    /\ lastClick = NoClick
    /\ curPos = <<1, 1>>
    /\ prevPos = <<1, 1>>
    /\ cf = EmptyStorage
    /\ deposited = [a \in Addresses |-> 0]
    /\ tokenBal = InitialTokens
    /\ now = 0
    /\ lastCall = NoCall
    /\ lastEvents = <<>>

\* the first entry of the tree is active, the contract is deployed and not
\* initialized, the widget is not on the page
RestInit ==
    /\ isBrowser = FALSE
    /\ feedbackGiven = FALSE
    /\ pageId = "goals"
    /\ gaPresent = FALSE
    /\ globalLabel = Unbound
    /\ gaQueue = <<>>
    /\ mounts = 0
    /\ sentAtMount = 0
    /\ lastClick = NoClick
    /\ curPos = <<1, 1>>
    /\ prevPos = <<1, 1>>
    /\ cf = EmptyStorage
    /\ deposited = [a \in Addresses |-> 0]
    /\ tokenBal = InitialTokens
    /\ now = 0
    /\ lastCall = NoCall
    /\ lastEvents = <<>>

\* the feedback widget in a browser
WidgetSpec == WidgetInit /\ [][WidgetNext]_vars

\* the site generator reading the navigation tree
SidebarSpec == RestInit /\ [][SidebarNext]_vars

\* the crowdfund contract on a ledger
CrowdfundSpec == RestInit /\ [][CrowdfundNext]_vars

(* ------------------------------- claims -------------------------------- *)

\* a control of the current instance has been clicked
Clicked == lastClick.control # "none"

\* events sent to window.ga by the current instance
SentThisMount == Len(gaQueue) - sentAtMount

\* C1 (as claimed): after any click made while the flag was "not given",
\* the flag is "given" and the widget shows the thanks message, whether or
\* not window.ga is present.
C1_ClickAlwaysGivesFeedback ==
    Clicked =>
        /\ feedbackGiven
        /\ Rendered.text = "Thanks for your feedback!"

\* C2: when window.ga is absent a click sends no telemetry event, raises
\* no error, and still sets the flag to "given".
C2_AbsentGaSilentSkip ==
    (Clicked /\ ~lastClick.hadGa) =>
        /\ lastClick.sent = 0
        /\ SentThisMount = 0
        /\ lastClick.outcome = "ok"
        /\ feedbackGiven

C2_Witness ==
    /\ Clicked
    /\ ~lastClick.hadGa
    /\ feedbackGiven
    /\ Rendered.text = "Thanks for your feedback!"

\* C3: within one mount at most one telemetry event is sent, the flag
\* never goes back from "given" to "not given", and once it is "given" no
\* control is rendered and nothing more is sent until the widget remounts.
C3_FeedbackAtMostOncePerMount ==
    [][ /\ Len(gaQueue') - sentAtMount' <= 1
        /\ (feedbackGiven /\ mounts' = mounts) =>
               /\ feedbackGiven'
               /\ gaQueue' = gaQueue
        /\ feedbackGiven' =>
               Render(isBrowser', feedbackGiven').controls = {} ]_vars

C3_Witness ==
    /\ mounts >= 1
    /\ feedbackGiven
    /\ SentThisMount = 1
    /\ Len(gaQueue) = 2

\* C4 (as claimed): when window.ga is present a click sends exactly one
\* call ga('send', event) with eventCategory 'button', eventAction
\* 'feedback', a defined eventLabel, and eventValue 1 for thumbs-up and 0
\* for thumbs-down.
C4_PresentGaSendsOneEvent ==
    (Clicked /\ lastClick.hadGa) =>
        /\ lastClick.sent = 1
        /\ LET call == gaQueue[Len(gaQueue)]
           IN /\ call[1] = "send"
              /\ call[2].eventCategory = "button"
              /\ call[2].eventAction = "feedback"
              /\ call[2].eventLabel \notin {Unbound, Undefined}
              /\ call[2].eventValue = ControlValue(lastClick.control)

\* C5: a page identifier appears at one position of the tree only (neither
\* twice in a category nor in two categories), and two categories never
\* share a label or a link slug.
C5_SidebarIdentifiersUnique ==
    /\ ItemAt(curPos) = ItemAt(prevPos) => curPos = prevPos
    /\ CategoryOf(curPos).label = CategoryOf(prevPos).label =>
           curPos[1] = prevPos[1]
    /\ CategoryOf(curPos).link.slug = CategoryOf(prevPos).link.slug =>
           curPos[1] = prevPos[1]

C5_Witness ==
    /\ curPos[1] # prevPos[1]
    /\ curPos[2] = prevPos[2]
    /\ ItemAt(curPos) = "methods/getHealth"

\* C6 (as claimed): withdraw succeeds only in state Success for the
\* recipient and in state Expired for a donor other than the recipient;
\* never in state Running; every other call fails and moves no tokens.
C6_WithdrawOnlyAsDocumented ==
    lastCall.op = "withdraw" =>
        /\ lastCall.result = "ok" =>
               \/ /\ lastCall.preState = "Success"
                  /\ lastCall.to = cf.recipient
               \/ /\ lastCall.preState = "Expired"
                  /\ lastCall.to # cf.recipient
                  /\ lastCall.wasDonor
        /\ (lastCall.preState = "Expired" /\ lastCall.wasDonor
              /\ lastCall.to # cf.recipient) => lastCall.result = "ok"
        /\ lastCall.result # "ok" => tokenBal = lastCall.preBal

\* C6 (amended): withdraw succeeds exactly when the state is Success, the
\* caller names the recipient and the recipient has not claimed yet, or
\* the state is Expired and the address is not the recipient, donor or
\* not; every other call fails and moves no tokens.
C6_WithdrawByStateAndRecipient ==
    lastCall.op = "withdraw" =>
        /\ lastCall.result = "ok" <=>
               \/ /\ lastCall.preState = "Success"
                  /\ lastCall.to = cf.recipient
                  /\ ~lastCall.preClaimed
               \/ /\ lastCall.preState = "Expired"
                  /\ lastCall.to # cf.recipient
        /\ lastCall.result # "ok" =>
               /\ tokenBal = lastCall.preBal
               /\ lastEvents = <<>>
        /\ (lastCall.result = "ok" /\ ~lastCall.wasDonor
              /\ lastCall.preState = "Expired") => tokenBal = lastCall.preBal

C6_Witness ==
    /\ lastCall.op = "withdraw"
    /\ lastCall.result = "ok"
    /\ lastCall.preState = "Expired"
    /\ ~lastCall.wasDonor
    /\ tokenBal[Contract] > 0

\* C7: once the recipient has withdrawn, the contract holds no tokens and
\* the state is still Success; a later withdraw for the recipient fails
\* with "recipient has withdrawn funds already" and one for any other
\* address with "only the recipient may withdraw".
C7_RecipientWithdrawsOnce ==
    /\ cf.claimed =>
           /\ tokenBal[Contract] = 0
           /\ CurrentState = "Success"
    /\ (lastCall.op = "withdraw" /\ lastCall.preClaimed) =>
           lastCall.result =
               IF lastCall.to = cf.recipient
               THEN "sale was successful, recipient has withdrawn funds already"
               ELSE "sale was successful, only the recipient may withdraw"

C7_Witness ==
    /\ lastCall.op = "withdraw"
    /\ lastCall.preClaimed
    /\ lastCall.to # cf.recipient
    /\ lastCall.wasDonor
    /\ cf.target > 0

====
